---- MODULE Spec2Model ----
(***************************************************************************)
(* Model of src/grammar.py: the Grammar and Rule classes, the bounded      *)
(* breadth-first search Grammar.possible_strings and the single-step       *)
(* expansion Rule.get_children.                                            *)
(*                                                                         *)
(* A Python str is modelled as a sequence of one-character strings, a      *)
(* Python list as a sequence, and an optional argument (None or a value)   *)
(* as the empty sequence or a one-element sequence.                        *)
(***************************************************************************)
EXTENDS Integers, Sequences, FiniteSets, TLC

VARIABLES
    pc,              \* "start", "constructed", "failed", "returned", "loop", "done"
    argRules,        \* Grammar.__init__: the rules argument (None or a list)
    argStringRules,  \* Grammar.__init__: the string_rules argument
    grammar,         \* the Grammar object: None, or Some([rules |-> ...])
    error,           \* the exception raised: "none", "GrammarError", "ValueError"
    search_depth,    \* possible_strings: the search_depth argument
    argRoot,         \* possible_strings: the root argument (None or a str)
    root,            \* possible_strings: the local root
    levels,          \* possible_strings: the local levels
    i,               \* possible_strings: iterations of the search loop done
    result,          \* possible_strings: the returned list
    call             \* the last direct get_children call and what it returned

vars == <<pc, argRules, argStringRules, grammar, error,
          search_depth, argRoot, root, levels, i, result, call>>

(***************************************************************************)
(* Bounds of the model.                                                    *)
(***************************************************************************)
MaxDepth == 2
MaxRules == 2
MaxStringRules == 1

(***************************************************************************)
(* Optional values.                                                        *)
(***************************************************************************)
None == <<>>

Some(x) == <<x>>

(***************************************************************************)
(* Module constants of grammar.py.                                         *)
(***************************************************************************)
ARROW_SEPERATOR == <<" ", "-", ">", " ">>

RULE_DELIMETER == <<" ", "|", " ">>

(***************************************************************************)
(* Python string primitives.                                               *)
(***************************************************************************)
\* str.find(sub) + 1: the 1-based index of the first literal occurrence of
\* sub in s, 0 when there is none.  sub is never empty here.
Find(s, sub) ==
    LET starts == {j \in 1..(Len(s) - Len(sub) + 1) :
                      SubSeq(s, j, j + Len(sub) - 1) = sub}
    IN  IF starts = {} THEN 0
        ELSE CHOOSE j \in starts : \A k \in starts : j <= k

\* `sub in s` of Python.
Contains(s, sub) == Find(s, sub) # 0

\* s.split(sep, maxsplit): a left-to-right scan cutting at most maxsplit
\* literal occurrences of sep; maxsplit < 0 means no limit.
RECURSIVE Split(_, _, _)
Split(s, sep, maxsplit) ==
    LET j == Find(s, sep)
    IN  IF maxsplit = 0 \/ j = 0 THEN <<s>>
        ELSE <<SubSeq(s, 1, j - 1)>> \o
             Split(SubSeq(s, j + Len(sep), Len(s)), sep,
                   IF maxsplit < 0 THEN maxsplit ELSE maxsplit - 1)

\* sep.join(parts)
RECURSIVE Join(_, _)
Join(sep, parts) ==
    IF parts = <<>> THEN <<>>
    ELSE IF Len(parts) = 1 THEN parts[1]
    ELSE parts[1] \o sep \o Join(sep, Tail(parts))

\* Whether the regular expression pattern matches node at position pos.
\* The patterns of the model are made of ordinary characters, which match
\* themselves, and of ".", which matches any character.
RegexMatchesAt(pattern, node, pos) ==
    /\ pos + Len(pattern) - 1 <= Len(node)
    /\ \A t \in 1..Len(pattern) :
          pattern[t] = "." \/ pattern[t] = node[pos + t - 1]

\* len(re.findall(pattern, node)): the matches are found left to right and
\* do not overlap.
RECURSIVE FindallCountFrom(_, _, _)
FindallCountFrom(pattern, node, pos) ==
    IF pos + Len(pattern) - 1 > Len(node) THEN 0
    ELSE IF RegexMatchesAt(pattern, node, pos)
         THEN 1 + FindallCountFrom(pattern, node, pos + Len(pattern))
         ELSE FindallCountFrom(pattern, node, pos + 1)

FindallCount(pattern, node) == FindallCountFrom(pattern, node, 1)

(***************************************************************************)
(* class Rule                                                              *)
(***************************************************************************)
\* Rule.__string_to_rule_info: None when the unpacking of the split into
\* symbol, patterns raises ValueError, else Some of the rule.
StringToRuleInfo(string) ==
    LET parts == Split(string, ARROW_SEPERATOR, -1)
    IN  IF Len(parts) # 2 THEN None
        ELSE Some([symbol |-> parts[1],
                   patterns |-> Split(parts[2], RULE_DELIMETER, -1)])

\* Rule.__replace_nth_substring splitting n times where the code splits
\* n + 1 times.
ReplaceNthSubstringSplitN(string, substring, replacement_string, n) ==
    LET parts == Split(string, substring, n)
        splits == SubSeq(parts, 1, Len(parts) - 1)
        tail == parts[Len(parts)]
    IN  Join(replacement_string, <<Join(substring, splits), tail>>)

\* Rule.__replace_nth_substring
ReplaceNthSubstring(string, substring, replacement_string, n) ==
    LET parts == Split(string, substring, n + 1)
        splits == SubSeq(parts, 1, Len(parts) - 1)
        tail == parts[Len(parts)]
    IN  Join(replacement_string, <<Join(substring, splits), tail>>)

\* Rule.get_children: the outer loop runs over range(symbol_count), the
\* inner loop over the patterns.
RuleGetChildren(rule, node) ==
    LET symbol_count == FindallCount(rule.symbol, node)
        np == Len(rule.patterns)
    IN  [idx \in 1..(symbol_count * np) |->
            ReplaceNthSubstring(node, rule.symbol,
                                rule.patterns[((idx - 1) % np) + 1],
                                (idx - 1) \div np)]

(***************************************************************************)
(* class Grammar                                                           *)
(***************************************************************************)
\* Grammar.__strings_to_rules: None when some Rule(string=x) raises.
RECURSIVE StringsToRules(_)
StringsToRules(strings) ==
    IF strings = <<>> THEN Some(<<>>)
    ELSE LET first == StringToRuleInfo(Head(strings))
             rest == StringsToRules(Tail(strings))
         IN  IF first = None \/ rest = None THEN None
             ELSE Some(<<first[1]>> \o rest[1])

\* Grammar.__init__ testing rules before string_rules.
GrammarInitRulesFirst(rules, string_rules) ==
    IF rules # None
    THEN [grammar |-> Some([rules |-> rules[1]]), error |-> "none"]
    ELSE IF string_rules # None
         THEN LET built == StringsToRules(string_rules[1])
              IN  IF built = None
                  THEN [grammar |-> None, error |-> "ValueError"]
                  ELSE [grammar |-> Some([rules |-> built[1]]), error |-> "none"]
         ELSE [grammar |-> None, error |-> "GrammarError"]

\* Grammar.__init__: the object built and the exception raised.
GrammarInitOutcome(rules, string_rules) ==
    IF string_rules # None
    THEN LET built == StringsToRules(string_rules[1])
         IN  IF built = None
             THEN [grammar |-> None, error |-> "ValueError"]
             ELSE [grammar |-> Some([rules |-> built[1]]), error |-> "none"]
    ELSE IF rules # None
         THEN [grammar |-> Some([rules |-> rules[1]]), error |-> "none"]
         ELSE [grammar |-> None, error |-> "GrammarError"]

\* Grammar.__get_symbols
GetSymbols(rules) == [k \in 1..Len(rules) |-> rules[k].symbol]

\* Grammar.__default_root taking the first symbol alone.
DefaultRootFirstSymbol(rules) ==
    IF rules = <<>> THEN <<>> ELSE rules[1].symbol

\* Grammar.__default_root
DefaultRoot(rules) == Join(<<>>, GetSymbols(rules))

\* Grammar.get_children
RECURSIVE GrammarGetChildren(_, _)
GrammarGetChildren(rules, node) ==
    IF rules = <<>> THEN <<>>
    ELSE RuleGetChildren(Head(rules), node) \o
         GrammarGetChildren(Tail(rules), node)

\* list.extend over a list of lists: the lists concatenated in order
\* (evaluated by halves).
RECURSIVE ExtendAll(_)
ExtendAll(lists) ==
    IF lists = <<>> THEN <<>>
    ELSE IF Len(lists) = 1 THEN lists[1]
    ELSE LET h == Len(lists) \div 2
         IN  ExtendAll(SubSeq(lists, 1, h)) \o
             ExtendAll(SubSeq(lists, h + 1, Len(lists)))

\* The body of the search loop of possible_strings: level_strings built
\* from levels[-1].
NextLevel(rules, level) ==
    ExtendAll([k \in 1..Len(level) |-> GrammarGetChildren(rules, level[k])])

\* all_nodes holding the last level alone.
AllNodesLastLevel(lvls) == lvls[Len(lvls)]

\* all_nodes of possible_strings: the levels flattened.
AllNodes(lvls) == ExtendAll(lvls)

\* The lambda of the filter asking that every rule symbol be absent.
FilterLambdaAllAbsent(rule_symbols, a) ==
    \A k \in 1..Len(rule_symbols) : ~Contains(a, rule_symbols[k])

\* The lambda of the filter of possible_strings.
FilterLambda(rule_symbols, a) ==
    {k \in 1..Len(rule_symbols) : ~Contains(a, rule_symbols[k])} # {}

\* The return statement of possible_strings.
FilterNodes(rule_symbols, all_nodes) ==
    SelectSeq(all_nodes, LAMBDA a : FilterLambda(rule_symbols, a))

\* The levels possible_strings has built when its loop ends.
RECURSIVE SearchLevels(_, _, _)
SearchLevels(rules, depth, rt) ==
    IF depth <= 0 THEN <<<<rt>>>>
    ELSE LET before == SearchLevels(rules, depth - 1, rt)
         IN  Append(before, NextLevel(rules, before[Len(before)]))

\* Grammar.possible_strings as a function of its arguments.
PossibleStrings(rules, depth, rootArg) ==
    LET rt == IF rootArg = None THEN DefaultRoot(rules) ELSE rootArg[1]
    IN  FilterNodes(GetSymbols(rules), AllNodes(SearchLevels(rules, depth, rt)))

(***************************************************************************)
(* Inputs of the model.                                                    *)
(***************************************************************************)
\* All sequences over S of length at most n.
RECURSIVE SeqsUpTo(_, _)
SeqsUpTo(S, n) ==
    IF n = 0 THEN {<<>>}
    ELSE LET shorter == SeqsUpTo(S, n - 1)
         IN  shorter \cup {Append(q, x) : q \in shorter, x \in S}

\* Rule objects handed to Grammar(rules=...): a one-character symbol with
\* recursive alternatives, a rule with an empty alternative, a symbol of
\* two characters, a symbol that holds a regular-expression metacharacter,
\* and a rule with no alternative.  No symbol is empty.
RuleObjects ==
    { [symbol |-> <<"A">>,
       patterns |-> << <<"0">>, <<"1">>, <<"0", "A">>, <<"1", "A">> >>],
      [symbol |-> <<"B">>, patterns |-> << <<"A", "A">>, <<>> >>],
      [symbol |-> <<"A", "A">>, patterns |-> << <<"B">>, <<"0">> >>],
      [symbol |-> <<".">>, patterns |-> << <<"1">> >>],
      [symbol |-> <<"A">>, patterns |-> <<>>] }

\* Rule strings handed to Grammar(string_rules=...): two well-formed ones,
\* one without the arrow and one with two arrows.
RuleStrings ==
    { <<"A", " ", "-", ">", " ", "0", " ", "|", " ", "1", " ", "|", " ",
        "0", "A", " ", "|", " ", "1", "A">>,
      <<"B", " ", "-", ">", " ", "A", "0">>,
      <<"A", " ", "|", " ", "0">>,
      <<"A", " ", "-", ">", " ", "B", " ", "-", ">", " ", "0">> }

\* Sentences handed as root to possible_strings and as node to get_children.
Sentences ==
    { <<>>, <<"0">>, <<"A">>, <<"A", "B">>, <<"A", ".">>, <<"B", "A", "A">>,
      <<"A", "A", "A">>, <<"0", "A", "1", "A">> }

RulesArgs == {None} \cup {Some(r) : r \in SeqsUpTo(RuleObjects, MaxRules)}

StringRulesArgs ==
    {None} \cup {Some(r) : r \in SeqsUpTo(RuleStrings, MaxStringRules)}

RootArgs == {None} \cup {Some(s) : s \in Sentences}

(***************************************************************************)
(* The state machine.                                                      *)
(***************************************************************************)
Init ==
    /\ pc = "start"
    /\ argRules = None
    /\ argStringRules = None
    /\ grammar = None
    /\ error = "none"
    /\ search_depth = 0
    /\ argRoot = None
    /\ root = <<>>
    /\ levels = <<>>
    /\ i = 0
    /\ result = <<>>
    /\ call = None

\* Grammar(rules, string_rules)
GrammarInit(rules, string_rules) ==
    /\ pc = "start"
    /\ LET out == GrammarInitOutcome(rules, string_rules)
       IN  /\ grammar' = out.grammar
           /\ error' = out.error
           /\ pc' = IF out.error = "none" THEN "constructed" ELSE "failed"
    /\ argRules' = rules
    /\ argStringRules' = string_rules
    /\ UNCHANGED <<search_depth, argRoot, root, levels, i, result, call>>

\* grammar.rules[k].get_children(node), called directly.
CallRuleGetChildren(k, node) ==
    /\ pc = "constructed"
    /\ pc' = "returned"
    /\ k \in 1..Len(grammar[1].rules)
    /\ call' = Some([rule |-> grammar[1].rules[k], node |-> node,
                     children |-> RuleGetChildren(grammar[1].rules[k], node)])
    /\ UNCHANGED <<argRules, argStringRules, grammar, error,
                   search_depth, argRoot, root, levels, i, result>>

\* grammar.possible_strings(depth, rootArg) up to the search loop.  The
\* arguments of the finished constructor call are dropped here.
PossibleStringsEnter(depth, rootArg) ==
    /\ pc = "constructed"
    /\ pc' = "loop"
    /\ search_depth' = depth
    /\ argRoot' = rootArg
    /\ root' = IF rootArg = None THEN DefaultRoot(grammar[1].rules)
               ELSE rootArg[1]
    /\ levels' = <<<<root'>>>>
    /\ i' = 0
    /\ result' = <<>>
    /\ argRules' = None
    /\ argStringRules' = None
    /\ UNCHANGED <<grammar, error, call>>

\* One iteration of `for i in range(search_depth)`.
SearchLoopBody ==
    /\ pc = "loop"
    /\ i < search_depth
    /\ levels' = Append(levels, NextLevel(grammar[1].rules, levels[Len(levels)]))
    /\ i' = i + 1
    /\ UNCHANGED <<pc, argRules, argStringRules, grammar, error,
                   search_depth, argRoot, root, result, call>>

\* The loop is over: flatten, filter and return.
PossibleStringsReturn ==
    /\ pc = "loop"
    /\ i >= search_depth
    /\ result' = FilterNodes(GetSymbols(grammar[1].rules), AllNodes(levels))
    /\ pc' = "done"
    /\ UNCHANGED <<argRules, argStringRules, grammar, error,
                   search_depth, argRoot, root, levels, i, call>>

Next ==
    \/ \E rules \in RulesArgs, string_rules \in StringRulesArgs :
          GrammarInit(rules, string_rules)
    \/ \E k \in 1..MaxRules, node \in Sentences : CallRuleGetChildren(k, node)
    \/ \E depth \in 0..MaxDepth, rootArg \in RootArgs :
          PossibleStringsEnter(depth, rootArg)
    \/ SearchLoopBody
    \/ PossibleStringsReturn

Spec == Init /\ [][Next]_vars

(***************************************************************************)
(* Vocabulary of the properties, stated without the operators above.       *)
(***************************************************************************)
Rules == grammar[1].rules

Searching == pc \in {"loop", "done"}

\* x occurs in s as a literal substring.
IsSubstringOf(x, s) ==
    \E j \in 0..(Len(s) - Len(x)) : \A t \in 1..Len(x) : s[j + t] = x[t]

\* At least one rule symbol is not a substring of s.
SomeSymbolMissing(rules, s) ==
    \E k \in 1..Len(rules) : ~IsSubstringOf(rules[k].symbol, s)

\* The number of positions of q that hold x.
Count(q, x) == Cardinality({k \in 1..Len(q) : q[k] = x})

Range(q) == {q[k] : k \in 1..Len(q)}

\* The levels one after the other, the last level last.
RECURSIVE LevelsInOrder(_)
LevelsInOrder(lvls) ==
    IF lvls = <<>> THEN <<>>
    ELSE LevelsInOrder(SubSeq(lvls, 1, Len(lvls) - 1)) \o lvls[Len(lvls)]

\* The start positions of the literal occurrences of symbol in node, found
\* left to right without overlap.
RECURSIVE OccurrencesFrom(_, _, _)
OccurrencesFrom(symbol, node, pos) ==
    IF pos + Len(symbol) - 1 > Len(node) THEN <<>>
    ELSE IF \A t \in 1..Len(symbol) : node[pos + t - 1] = symbol[t]
         THEN <<pos>> \o OccurrencesFrom(symbol, node, pos + Len(symbol))
         ELSE OccurrencesFrom(symbol, node, pos + 1)

Occurrences(symbol, node) == OccurrencesFrom(symbol, node, 1)

\* node with the occurrence of symbol that starts at start replaced by
\* pattern, and nothing else changed.
Rewrite(node, symbol, pattern, start) ==
    SubSeq(node, 1, start - 1) \o pattern \o
    SubSeq(node, start + Len(symbol), Len(node))

\* One child per occurrence and pattern, by occurrence then by pattern.
Rewrites(rule, node) ==
    LET occ == Occurrences(rule.symbol, node)
        np == Len(rule.patterns)
    IN  [idx \in 1..(Len(occ) * np) |->
            Rewrite(node, rule.symbol, rule.patterns[((idx - 1) % np) + 1],
                    occ[((idx - 1) \div np) + 1])]

\* One entry per derivation path of exactly n rewrite steps from rt.
RECURSIVE Derivations(_, _, _)
Derivations(rules, rt, n) ==
    IF n = 0 THEN <<rt>>
    ELSE LET before == Derivations(rules, rt, n - 1)
         IN  ExtendAll([k \in 1..Len(before) |->
                 ExtendAll([r \in 1..Len(rules) |-> Rewrites(rules[r], before[k])])])

\* The text of a rule: symbol -> alternative | alternative | ...
RuleText(rule) ==
    rule.symbol \o <<" ", "-", ">", " ">> \o Join(<<" ", "|", " ">>, rule.patterns)

\* The rule A -> 0 | 1 | 0A | 1A.
BinaryRule ==
    [symbol |-> <<"A">>,
     patterns |-> << <<"0">>, <<"1">>, <<"0", "A">>, <<"1", "A">> >>]

C4_AsClaimed ==
    (pc = "done" /\ Rules = <<BinaryRule>> /\ argRoot = None /\ search_depth = 2)
       => result = << <<"0">>, <<"1">>, <<"0", "0">>, <<"1", "0">>,
                      <<"0", "1">>, <<"1", "1">> >>

\* C4 amended: for the single rule A -> 0 | 1 | 0A | 1A and the implicit
\* root, possible_strings(2) returns ["0", "1", "00", "01", "10", "11"] in
\* that order (the children of "0A", then those of "1A"), no duplicates.
C4_BinaryStringsDepth2 ==
    (pc = "done" /\ Rules = <<BinaryRule>> /\ argRoot = None /\ search_depth = 2)
       => result = << <<"0">>, <<"1">>, <<"0", "0">>, <<"0", "1">>,
                      <<"1", "0">>, <<"1", "1">> >>

\* possible_strings(2) has returned for the grammar A -> 0 | 1 | 0A | 1A
\* and the implicit root.
C4_Witness ==
    /\ pc = "done"
    /\ Rules = <<BinaryRule>>
    /\ argRoot = None
    /\ search_depth = 2
    /\ Len(result) = 6

\* C6: the set of sentences possible_strings(search_depth, root) returns
\* includes the set possible_strings(search_depth - 1, root) returns.
C6_DeeperSearchKeepsResults ==
    pc = "done" =>
       Range(PossibleStrings(Rules, search_depth - 1, argRoot)) \subseteq Range(result)

\* A search of depth 1 or more whose shallower search returns something and
\* which itself returns strictly more.
C6_Witness ==
    /\ pc = "done"
    /\ search_depth >= 1
    /\ Range(PossibleStrings(Rules, search_depth - 1, argRoot)) # {}
    /\ Range(result) # Range(PossibleStrings(Rules, search_depth - 1, argRoot))

\* C7: constructing a Grammar raises GrammarError if and only if rules and
\* string_rules are both None; with string_rules supplied the rules are the
\* ones its strings spell (also when rules is supplied too), otherwise the
\* rules are the supplied list; after a failed construction there is no
\* Grammar object.
C7_ConstructionOutcome ==
    pc \in {"constructed", "failed"} =>
       /\ (error = "GrammarError") <=> (argRules = None /\ argStringRules = None)
       /\ (pc = "failed") <=> (error # "none")
       /\ error # "none" => grammar = None
       /\ error = "none" => grammar # None
       /\ (error = "none" /\ argStringRules # None) =>
             /\ Len(Rules) = Len(argStringRules[1])
             /\ \A k \in 1..Len(Rules) :
                   /\ RuleText(Rules[k]) = argStringRules[1][k]
                   /\ ~IsSubstringOf(<<" ", "-", ">", " ">>, Rules[k].symbol)
                   /\ Rules[k].patterns # <<>>
                   /\ \A q \in 1..Len(Rules[k].patterns) :
                         ~IsSubstringOf(<<" ", "|", " ">>, Rules[k].patterns[q])
       /\ (argStringRules = None /\ argRules # None) =>
             (error = "none" /\ Rules = argRules[1])

\* The construction with neither argument has failed with GrammarError.
C7_Witness ==
    /\ pc = "failed"
    /\ error = "GrammarError"
    /\ argRules = None
    /\ argStringRules = None
    /\ grammar = None

\* C8: without a root argument possible_strings starts from the rule
\* symbols concatenated in declaration order, one occurrence per rule, and
\* so for a grammar with at least one rule possible_strings(0) returns [],
\* as it does for the grammar A -> 0 | 1 | 0A | 1A.
C8_ImplicitRoot ==
    (Searching /\ argRoot = None) =>
       /\ Len(root) = Len(LevelsInOrder(GetSymbols(Rules)))
       /\ \A k \in 1..Len(Rules) :
             LET before == Len(LevelsInOrder([q \in 1..(k - 1) |-> Rules[q].symbol]))
             IN  SubSeq(root, before + 1, before + Len(Rules[k].symbol))
                    = Rules[k].symbol
       /\ (pc = "done" /\ search_depth = 0 /\ Len(Rules) >= 1) => result = <<>>
       /\ (pc = "done" /\ search_depth = 0 /\ Rules = <<BinaryRule>>) => result = <<>>

\* possible_strings(0) has returned for a grammar of two rules with
\* different symbols and the implicit root.
C8_Witness ==
    /\ pc = "done"
    /\ argRoot = None
    /\ search_depth = 0
    /\ Len(Rules) >= 2
    /\ Rules[1].symbol # Rules[2].symbol
    /\ result = <<>>

\* C2: Rule.get_children returns one child per occurrence of the rule's
\* symbol in the sentence (left to right, non-overlapping) and per pattern,
\* ordered by occurrence and then by pattern; the child for occurrence i
\* and pattern p is the sentence with only that occurrence replaced by p.
C2_ChildrenReplaceOneOccurrence ==
    call # None => call[1].children = Rewrites(call[1].rule, call[1].node)

\* C3: Rule.get_children returns exactly k x p results, k the number of
\* literal occurrences of the rule's symbol in the sentence and p the
\* number of patterns, whatever characters the symbol is made of; with no
\* literal occurrence the result is empty.
C3_LiteralOccurrencesTimesPatterns ==
    call # None =>
       /\ Len(call[1].children) =
             Len(Occurrences(call[1].rule.symbol, call[1].node))
                * Len(call[1].rule.patterns)
       /\ ~IsSubstringOf(call[1].rule.symbol, call[1].node)
             => call[1].children = <<>>

\* C5: none of the grammar's rule symbols occurs in a sentence that
\* possible_strings returns.
C5_ResultsHoldOnlyTerminals ==
    pc = "done" =>
       \A n \in 1..Len(result) : \A k \in 1..Len(Rules) :
          ~IsSubstringOf(Rules[k].symbol, result[n])

\* C9: level n + 1 is the concatenation, over the sentences of level n in
\* order, of the children each rule gives in declaration order, and a
\* sentence appears in level n once per derivation path of exactly n
\* rewrite steps (rule, occurrence, pattern) from the root to it.
C9_OneEntryPerDerivationPath ==
    Searching =>
       \A n \in 1..Len(levels) :
          /\ n > 1 => levels[n] = NextLevel(Rules, levels[n - 1])
          /\ \A s \in Range(levels[n]) \cup Range(Derivations(Rules, root, n - 1)) :
                Count(levels[n], s) = Count(Derivations(Rules, root, n - 1), s)

\* A sentence in which no rule symbol occurs.
NoSymbolOccurs(rules, s) ==
    \A k \in 1..Len(rules) : ~IsSubstringOf(rules[k].symbol, s)

\* C10: the search loop ends after exactly search_depth iterations with
\* search_depth + 1 levels; a sentence in which no rule symbol occurs adds
\* nothing to the next level; after an empty level every level is empty,
\* and the result is the one of the search that stops at the empty level.
C10_LoopEndsAndEmptyLevelsStay ==
    Searching =>
       /\ i <= search_depth
       /\ Len(levels) = i + 1
       /\ pc = "done" => i = search_depth
       /\ \A n \in 1..(Len(levels) - 1) :
             levels[n + 1] =
                NextLevel(Rules, SelectSeq(levels[n],
                                           LAMBDA a : ~NoSymbolOccurs(Rules, a)))
       /\ \A n, m \in 1..Len(levels) :
             (n <= m /\ levels[n] = <<>>) => levels[m] = <<>>
       /\ pc = "done" =>
             \A n \in 1..Len(levels) :
                levels[n] = <<>> => result = PossibleStrings(Rules, n - 1, argRoot)

====
